---- MODULE Spec2Model ----
(***************************************************************************)
(* Ising spin model of src/spin.py: Model construction from weighted       *)
(* triples, the stochastic update sweep, the final energy and the spin     *)
(* readout.  One run of main() after the input has been read and parsed.   *)
(***************************************************************************)
EXTENDS Integers, Sequences, FiniteSets, TLC

\* ---------------------------------------------------------------- bounds
MaxTriples == 3            \* longest list of weight triples
NodeQtys == {0, 1, 2}      \* node quantities of the instances
Iters == {0, 1, 2}         \* numbers of sweeps I
Weights == {-1, 2}         \* weights w of the triples
\* Temperatures as fractions <<numerator, denominator>>, denominator > 0:
\* 1 (valid), 0 and -1/200 (invalid).
Temps == {<<1, 1>>, <<0, 1>>, <<-1, 200>>}
\* A draw u of random.random() is given by d = -ln(u) > 0 (u = exp(-d) < 1).
Draws == {1, 5}
NoDraw == 0                \* random.random() was not called in the trial

\* math.exp(x) raises OverflowError for x above ln(DBL_MAX) = 709.78...;
\* the threshold in hundredths.
ExpMaxCenti == 70978

VARIABLES
  node_qty,   \* main: node_qty returned by parse_data
  weights,    \* main: weights returned by parse_data
  I,          \* main: number of sweeps
  T,          \* main: temperature
  spin,       \* nodes[n].spin
  h,          \* nodes[n].h
  Jn,         \* nodes[n].Jn
  Js,         \* model.Js
  hs,         \* model.hs
  pc,         \* position of main: "init", "run", "settled", "reported", "error"
  sweep,      \* modelE: loop variable i, the sweeps completed
  k,          \* update: loop variable i, the trials completed in this sweep
  n,          \* update: the node sampled by the last trial
  E,          \* update: the local energy computed by the last trial
  draw,       \* update: the value of random.random() in the last trial
  mE,         \* the value returned by modelE
  state,      \* the value returned by modelSpin
  err,        \* the exception that ended the run
  trials      \* number of trials started since construction

vars == <<node_qty, weights, I, T, spin, h, Jn, Js, hs, pc, sweep, k, n, E,
          draw, mE, state, err, trials>>

Nodes(q) == 0 .. (q - 1)

Triples(q) == {<<a, b, w>> : a \in Nodes(q), b \in Nodes(q), w \in Weights}

SeqsUpTo(S, m) == UNION {[1 .. len -> S] : len \in 0 .. m}

\* ------------------------------------------------------------------ Node

\* Node.__init__: the spin is random.choice((-1, 1)), h = 0, Jn = [].
SpinChoices == {-1, 1}

NewNodes(q) == [spin : [Nodes(q) -> SpinChoices],
                h : {[m \in Nodes(q) |-> 0]},
                Jn : {[m \in Nodes(q) |-> <<>>]}]

\* Node.seth on node a.
Seth(hh, a, w) == [hh EXCEPT ![a] = w]

\* Node.setJn on node a.
SetJn(jn, a, entry) == [jn EXCEPT ![a] = Append(@, entry)]

SwitchSpinToggle01(s) == 1 - s

\* Node.switchSpin.
SwitchSpin(s) == -s

\* One pass of the loop of Node.getE.
GetETerm(hn, sn, w, sm) == (hn * sn) + (w * sn * sm)

RECURSIVE GetELoop(_, _, _, _, _)
GetELoop(jn, i, hn, sn, sp) ==
  IF i > Len(jn) THEN 0
  ELSE GetETerm(hn, sn, jn[i][2], sp[jn[i][1]]) + GetELoop(jn, i + 1, hn, sn, sp)

RECURSIVE SumWeightedSpins(_, _, _)
SumWeightedSpins(jn, i, sp) ==
  IF i > Len(jn) THEN 0
  ELSE jn[i][2] * sp[jn[i][1]] + SumWeightedSpins(jn, i + 1, sp)

GetEFieldOnce(nd, sp, hh, jj) ==
  -((hh[nd] * sp[nd]) + sp[nd] * SumWeightedSpins(jj[nd], 1, sp))

\* Node.getE of node nd.
GetE(nd, sp, hh, jj) == -GetELoop(jj[nd], 1, hh[nd], sp[nd], sp)

\* ----------------------------------------------------------------- Model

AddCouplingOneWay(jn, w) == SetJn(jn, w[1], <<w[2], w[3]>>)

\* Model.__init__, the two setJn calls of an edge triple.
AddCoupling(jn, w) ==
  SetJn(SetJn(jn, w[1], <<w[2], w[3]>>), w[2], <<w[1], w[3]>>)

\* Model.__init__, the loop over weights from position i on.
RECURSIVE BuildFrom(_, _, _)
BuildFrom(ws, i, m) ==
  IF i > Len(ws) THEN m
  ELSE LET w == ws[i] IN
       IF w[1] # w[2]
       THEN BuildFrom(ws, i + 1,
              [m EXCEPT !.Jn = AddCoupling(@, w),
                        !.Js = Append(@, <<w[1], w[2], w[3]>>)])
       ELSE BuildFrom(ws, i + 1,
              [m EXCEPT !.h = Seth(@, w[1], w[3]),
                        !.hs = Append(@, <<w[1], w[3]>>)])

\* Model.__init__ on nodes already created.
BuildModel(nodes, ws) ==
  BuildFrom(ws, 1, [h |-> nodes.h, Jn |-> nodes.Jn, Js |-> <<>>, hs |-> <<>>])

\* ---------------------------------------------------------------- update

TPositive(t) == t[1] > 0
TZero(t) == t[1] = 0
TNegative(t) == t[1] < 0

\* 2*E/T is above the largest argument of math.exp (T # 0).
ExpOverflows(e, t) ==
  IF t[1] > 0 THEN 100 * 2 * e * t[2] > ExpMaxCenti * t[1]
  ELSE 100 * 2 * e * t[2] < ExpMaxCenti * t[1]

\* random.random() < math.exp(2*E/T) for the draw u = exp(-d): -d < 2*E/T
\* (T # 0).
DrawBelowExp(d, e, t) ==
  IF t[1] > 0 THEN (-d) * t[1] < 2 * e * t[2]
  ELSE (-d) * t[1] > 2 * e * t[2]

TrialOutcomeEager(e, d, t) ==
  IF TZero(t) THEN [flip |-> FALSE, drew |-> TRUE, err |-> "ZeroDivisionError"]
  ELSE IF ExpOverflows(e, t)
       THEN [flip |-> FALSE, drew |-> TRUE, err |-> "OverflowError"]
       ELSE [flip |-> (e > 0) \/ DrawBelowExp(d, e, t), drew |-> TRUE, err |-> "none"]

TrialOutcomeSwapped(e, d, t) ==
  IF e < 0 THEN [flip |-> TRUE, drew |-> FALSE, err |-> "none"]
  ELSE IF TZero(t)
       THEN [flip |-> FALSE, drew |-> TRUE, err |-> "ZeroDivisionError"]
       ELSE IF ExpOverflows(e, t)
            THEN [flip |-> FALSE, drew |-> TRUE, err |-> "OverflowError"]
            ELSE [flip |-> DrawBelowExp(d, e, t), drew |-> TRUE, err |-> "none"]

\* update, the if/elif of one trial with local energy e and draw d:
\* whether the spin is switched, whether random.random() was called, and
\* the exception raised by 2*E/T or math.exp.
TrialOutcome(e, d, t) ==
  IF e > 0 THEN [flip |-> TRUE, drew |-> FALSE, err |-> "none"]
  ELSE IF TZero(t)
       THEN [flip |-> FALSE, drew |-> TRUE, err |-> "ZeroDivisionError"]
       ELSE IF ExpOverflows(e, t)
            THEN [flip |-> FALSE, drew |-> TRUE, err |-> "OverflowError"]
            ELSE [flip |-> DrawBelowExp(d, e, t), drew |-> TRUE, err |-> "none"]

TrialsPerSweepOffByOne(q) == q + 1

\* update: range(node_qty), the trials of one sweep.
TrialsPerSweep(q) == q

\* ---------------------------------------------------------------- modelE

RECURSIVE SumJs(_, _, _)
SumJs(js, i, sp) ==
  IF i > Len(js) THEN 0
  ELSE sp[js[i][1]] * sp[js[i][2]] * js[i][3] + SumJs(js, i + 1, sp)

RECURSIVE SumHs(_, _, _)
SumHs(fs, i, sp) ==
  IF i > Len(fs) THEN 0
  ELSE sp[fs[i][1]] * fs[i][2] + SumHs(fs, i + 1, sp)

ModelEnergyNotNegated(sp, js, fs) == SumJs(js, 1, sp) + SumHs(fs, 1, sp)

\* modelE, the two summation loops and the return.
ModelEnergy(sp, js, fs) == -(SumJs(js, 1, sp) + SumHs(fs, 1, sp))

\* ------------------------------------------------------------- modelSpin

\* modelSpin: one symbol per node in the order of the dict.
ModelSpin(sp, q) == [i \in 1 .. q |-> IF sp[i - 1] > 0 THEN "+" ELSE "-"]

\* --------------------------------------------------------------- actions

Init ==
  /\ node_qty \in NodeQtys
  /\ weights \in SeqsUpTo(Triples(node_qty), MaxTriples)
  /\ I \in Iters
  /\ T \in Temps
  /\ spin = <<>> /\ h = <<>> /\ Jn = <<>>
  /\ Js = <<>> /\ hs = <<>>
  /\ pc = "init"
  /\ sweep = 0 /\ k = 0 /\ n = 0 /\ E = 0 /\ draw = NoDraw
  /\ mE = 0 /\ state = <<>> /\ err = "none" /\ trials = 0

\* Model(node_qty, weights), then the entry into modelE.
Construct ==
  /\ pc = "init"
  /\ \E nodes \in NewNodes(node_qty) :
       LET m == BuildModel(nodes, weights) IN
       /\ spin' = nodes.spin
       /\ h' = m.h /\ Jn' = m.Jn /\ Js' = m.Js /\ hs' = m.hs
  /\ pc' = "run"
  /\ UNCHANGED <<node_qty, weights, I, T, sweep, k, n, E, draw, mE, state,
                 err, trials>>

\* One pass of the loop of update.
Trial ==
  /\ pc = "run" /\ sweep < I /\ k < TrialsPerSweep(node_qty)
  /\ \E nn \in Nodes(node_qty), d \in Draws :
       LET e == GetE(nn, spin, h, Jn)
           o == TrialOutcome(e, d, T)
       IN /\ n' = nn
          /\ E' = e
          /\ draw' = IF o.drew THEN d ELSE NoDraw
          /\ spin' = IF o.flip THEN [spin EXCEPT ![nn] = SwitchSpin(@)] ELSE spin
          /\ err' = o.err
          /\ pc' = IF o.err = "none" THEN "run" ELSE "error"
  /\ k' = k + 1
  /\ trials' = trials + 1
  /\ UNCHANGED <<node_qty, weights, I, T, h, Jn, Js, hs, sweep, mE, state>>

\* update returns: the next pass of the loop of modelE.
EndSweep ==
  /\ pc = "run" /\ sweep < I /\ k >= TrialsPerSweep(node_qty)
  /\ sweep' = sweep + 1
  /\ k' = 0
  /\ UNCHANGED <<node_qty, weights, I, T, spin, h, Jn, Js, hs, pc, n, E, draw,
                 mE, state, err, trials>>

\* modelE after its sweeps: the energy is summed and returned.
Energy ==
  /\ pc = "run" /\ sweep >= I
  /\ mE' = ModelEnergy(spin, Js, hs)
  /\ pc' = "settled"
  /\ UNCHANGED <<node_qty, weights, I, T, spin, h, Jn, Js, hs, sweep, k, n, E,
                 draw, state, err, trials>>

RenderOverwritesSpins ==
  /\ pc = "settled"
  /\ state' = ModelSpin(spin, node_qty)
  /\ spin' = [m \in DOMAIN spin |-> IF spin[m] > 0 THEN 1 ELSE 0]
  /\ pc' = "reported"
  /\ UNCHANGED <<node_qty, weights, I, T, h, Jn, Js, hs, sweep, k, n, E,
                 draw, mE, err, trials>>

\* modelSpin, called by main after modelE.
Render ==
  /\ pc = "settled"
  /\ state' = ModelSpin(spin, node_qty)
  /\ pc' = "reported"
  /\ UNCHANGED <<node_qty, weights, I, T, spin, h, Jn, Js, hs, sweep, k, n, E,
                 draw, mE, err, trials>>

Next == Construct \/ Trial \/ EndSweep \/ Energy \/ Render

Spec == Init /\ [][Next]_vars

\* ------------------------------------------------------------ properties

Returned == pc \in {"settled", "reported"}

Constructed == pc # "init"

TrialStep == trials' = trials + 1

\* Sum of f over 1 .. Len(f), from the last entry down.
SeqTotal(f) ==
  LET t[i \in 0 .. Len(f)] == IF i = 0 THEN 0 ELSE t[i - 1] + f[i]
  IN t[Len(f)]

EdgeTotal == SeqTotal([i \in 1 .. Len(Js) |-> spin[Js[i][1]] * spin[Js[i][2]] * Js[i][3]])

FieldTotal == SeqTotal([i \in 1 .. Len(hs) |-> spin[hs[i][1]] * hs[i][2]])

NodeFieldTotal == SeqTotal([i \in 1 .. node_qty |-> spin[i - 1] * h[i - 1]])

CouplingTotal(m) ==
  SeqTotal([i \in 1 .. Len(Jn[m]) |-> Jn[m][i][2] * spin[Jn[m][i][1]]])

InSeq(x, s) == \E i \in 1 .. Len(s) : s[i] = x

\* C1: in every state, every node's spin is +1 or -1, and after
\* construction there is one spin per node index.
SpinsArePlusOrMinusOne ==
  /\ \A m \in DOMAIN spin : spin[m] \in {-1, 1}
  /\ Constructed => DOMAIN spin = Nodes(node_qty)

\* C1 witness: a trial has just switched a spin (E > 0 flips unconditionally).
SpinSwitchedByTrial ==
  /\ pc = "run" /\ trials >= 2 /\ E > 0
  /\ spin[n] \in {-1, 1}

\* C2 as stated: with T <= 0, node_qty >= 1 and I >= 1 the run never gets
\* past its first sweep and never returns an energy.
InvalidTNeverReturns ==
  (~TPositive(T) /\ node_qty >= 1 /\ I >= 1) => (sweep = 0 /\ ~Returned)

InvalidTInv ==
  /\ pc = "error" =>
       /\ ~TPositive(T) /\ E <= 0 /\ trials >= 1
       /\ err \in {"ZeroDivisionError", "OverflowError"}
       /\ (err = "ZeroDivisionError") <=> TZero(T)
  /\ (pc # "error") <=> (err = "none")
  /\ (TZero(T) /\ trials >= 1 /\ E <= 0) => pc = "error"

InvalidTStep ==
  /\ pc = "error" => FALSE
  /\ (TrialStep /\ TZero(T)) =>
       /\ (E' <= 0) <=> (pc' = "error")
       /\ (E' <= 0) => spin' = spin
       /\ (E' > 0) => spin' = [spin EXCEPT ![n'] = -spin[n']]
  /\ (TrialStep /\ TNegative(T)) =>
       \/ pc' = "error" /\ err' = "OverflowError" /\ E' < 0 /\ spin' = spin
       \/ pc' = "run" /\ spin' = [spin EXCEPT ![n'] = -spin[n']]

\* C2 amended: with T = 0 a trial ends the run in a division error exactly
\* when its local energy is E <= 0, and a trial with E > 0 switches the spin
\* and goes on; with T < 0 no division error occurs and every trial switches
\* the sampled spin or, for E < 0, ends the run in an overflow error of
\* math.exp; a run that ended in an error makes no further step and returns
\* nothing.
InvalidTOutcome == []InvalidTInv /\ [][InvalidTStep]_vars

\* C2 witness: with T = 0 the first trial had E > 0 and passed, the second
\* ended the run in the division error.
ZeroTErrorAfterPassedTrial ==
  /\ TZero(T) /\ pc = "error" /\ err = "ZeroDivisionError"
  /\ trials = 2 /\ E <= 0

\* C3: for T > 0 the returned energy is minus the sum of the edge terms and
\* the field terms on the final spins; for two nodes and one coupling
\* (0, 1, w), w > 0, it is -w for equal spins and +w for different ones.
ReturnedEnergyIsHamiltonian ==
  (Returned /\ TPositive(T)) =>
     /\ mE = -(EdgeTotal + FieldTotal)
     /\ (node_qty = 2 /\ Len(weights) = 1 /\ weights[1][1] = 0
           /\ weights[1][2] = 1 /\ weights[1][3] > 0) =>
          mE = IF spin[0] = spin[1] THEN -weights[1][3] ELSE weights[1][3]

\* C3 witness: two nodes, the single coupling (0, 1, 2), different final
\* spins after two sweeps.
TwoNodeAntiAlignedEnergy ==
  /\ pc = "settled" /\ TPositive(T) /\ I = 2 /\ trials = 4
  /\ node_qty = 2 /\ weights = <<<<0, 1, 2>>>>
  /\ spin[0] # spin[1] /\ mE = 2

\* C4 as stated: the returned energy holds each node's field once, the
\* field being the weight the node holds after construction.
FieldCountedOncePerNode ==
  Returned => mE = -(EdgeTotal + NodeFieldTotal)

\* C5: after construction and after any number of sweeps, every input
\* triple (a, b, w) with a # b is in Js, (b, w) is in a's Jn and (a, w) is
\* in b's Jn.
CouplingSymmetry ==
  Constructed =>
    \A i \in 1 .. Len(weights) :
      LET a == weights[i][1]
          b == weights[i][2]
          w == weights[i][3]
      IN a # b =>
           /\ InSeq(<<b, w>>, Jn[a])
           /\ InSeq(<<a, w>>, Jn[b])
           /\ InSeq(<<a, b, w>>, Js)

\* C5 witness: a model with a coupling triple, after its sweeps.
CouplingAfterSweeps ==
  /\ pc = "reported" /\ trials = 4
  /\ \E i \in 1 .. Len(weights) : weights[i][1] # weights[i][2]

\* C7: a trial with T > 0 computes E on the spins before it; E > 0 switches
\* the sampled spin, E <= 0 switches it exactly when the draw is below
\* exp(2*E/T) (always for E = 0, where exp is 1); no other spin changes.
TrialRuleStep ==
  (TrialStep /\ TPositive(T)) =>
     /\ n' \in Nodes(node_qty)
     /\ E' = GetE(n', spin, h, Jn)
     /\ (E' > 0) => (spin'[n'] = -spin[n'] /\ draw' = NoDraw)
     /\ (E' <= 0) =>
          /\ draw' \in Draws
          /\ spin'[n'] \in {spin[n'], -spin[n']}
          /\ (spin'[n'] = -spin[n']) <=> ((-draw') * T[1] < 2 * E' * T[2])
     /\ (E' = 0) => spin'[n'] = -spin[n']
     /\ \A m \in Nodes(node_qty) : m # n' => spin'[m] = spin[m]
     /\ pc' = "run"

TrialRule == [][TrialRuleStep]_vars

\* C7 witness: a trial with E < 0 drew a value and left the spin of a
\* two-node model as it was.
TrialRejected ==
  /\ pc = "run" /\ TPositive(T) /\ trials >= 1 /\ node_qty = 2
  /\ E < 0 /\ draw \in Draws /\ E = GetE(n, spin, h, Jn)

FrameStep ==
  Constructed =>
     /\ h' = h /\ Jn' = Jn /\ Js' = Js /\ hs' = hs
     /\ node_qty' = node_qty /\ weights' = weights
     /\ DOMAIN spin' = DOMAIN spin
     /\ ~TrialStep => spin' = spin

FrameOnlySpins == [][FrameStep]_vars

\* C9 witness: a run with couplings and fields, after the trials, the
\* energy summation and the readout.
ReportedAfterTrials ==
  /\ pc = "reported" /\ trials = 4
  /\ Len(Js) >= 1 /\ Len(hs) >= 1 /\ Len(state) = node_qty

Measure == (I - sweep) * (node_qty + 1) - k + 1

RunLengthInv ==
  TPositive(T) =>
     /\ pc # "error"
     /\ Returned => (trials = I * node_qty /\ sweep = I)
     /\ pc = "run" => (sweep <= I /\ k <= node_qty /\ Measure >= 1
                        /\ trials = sweep * node_qty + k)
     /\ node_qty = 0 => (trials = 0 /\ (Returned => mE = 0))

RunLengthStep ==
  TPositive(T) =>
     /\ (pc = "run" /\ pc' = "run") => (Measure' < Measure)
     /\ pc = "run" => pc' \in {"run", "settled"}
     /\ sweep' # sweep =>
          (sweep' = sweep + 1 /\ k = node_qty /\ k' = 0 /\ spin' = spin)
     /\ (pc = "run" /\ I = 0) =>
          (pc' = "settled" /\ trials = 0 /\ spin' = spin
             /\ mE' = -(EdgeTotal + FieldTotal))

\* C10: for T > 0 a run makes exactly I * node_qty trials, sweep after
\* sweep on the spins the sweep before left, every step bringing the end
\* nearer, and never ends in an error; with no nodes it makes no trial and
\* returns 0; with I = 0 the energy is that of the spins of construction.
RunLength == []RunLengthInv /\ [][RunLengthStep]_vars

\* C10 witness: two sweeps of two trials each have returned.
TwoSweepsDone ==
  /\ pc = "settled" /\ TPositive(T)
  /\ I = 2 /\ node_qty = 2 /\ sweep = 2 /\ trials = 4

====
